---------------------------- MODULE Spec2Model ----------------------------
(***************************************************************************)
(* otgorm: OpenTelemetry spans around gorm's create / query / update /     *)
(* delete callbacks.                                                       *)
(*                                                                         *)
(*   callbacks.go   the settings (struct callbacks), the Options,          *)
(*                  RegisterCallbacks, and the before / after hooks        *)
(*   part_000       CreateSpanAttribute                                    *)
(*                                                                         *)
(* Three specifications share the variables:                               *)
(*   Spec      the hooks running on gorm scopes, goroutine by goroutine    *)
(*   SpecReg   RegisterCallbacks folding its Options and registering       *)
(*   SpecAttr  CreateSpanAttribute applied to values of every type         *)
(***************************************************************************)
EXTENDS Integers, Sequences, FiniteSets, TLC

VARIABLES
    c,          \* the *callbacks built by RegisterCallbacks (callbacks.go:21-40)
    backing,    \* the array behind the slice c.defaultAttributes, all cap() cells
    scopes,     \* the *gorm.DB scopes the hooks are called with
    spans,      \* every span the tracer started, with the calls made on it
    reg,        \* RegisterCallbacks: its call and what the caller got back
    conv        \* CreateSpanAttribute: its arguments and its result

vars == <<c, backing, scopes, spans, reg, conv>>

-----------------------------------------------------------------------------
(* Bit strings, most significant bit first: Go's fixed-width numbers.      *)

Bit == {0, 1}

Rep(b, n) == [i \in 1..n |-> b]

\* the unsigned value of a short bit string
RECURSIVE BitsToNat(_)
BitsToNat(bs) ==
    IF bs = <<>> THEN 0
    ELSE 2 * BitsToNat(SubSeq(bs, 1, Len(bs) - 1)) + bs[Len(bs)]

\* the n-bit string of a natural number (modulo 2^n)
RECURSIVE NatToBits(_, _)
NatToBits(x, n) ==
    IF n = 0 THEN <<>>
    ELSE NatToBits(x \div 2, n - 1) \o <<x % 2>>

\* Go's integer conversions: int(x), int64(x) to a 64-bit integer
SignExtend(bs, n) == Rep(bs[1], n - Len(bs)) \o bs
ZeroExtend(bs, n) == Rep(0, n - Len(bs)) \o bs
Truncate(bs, n) == SubSeq(bs, Len(bs) - n + 1, Len(bs))

IsSigned(t) == t \in {"int", "int32", "int64", "int8", "int16"}

\* int64(x) / int(x) on a 64-bit build: widen by the operand's signedness,
\* or keep the low 64 bits
ToInt64(t, bs) ==
    IF Len(bs) >= 64 THEN Truncate(bs, 64)
    ELSE IF IsSigned(t) THEN SignExtend(bs, 64)
    ELSE ZeroExtend(bs, 64)

\* float64(x) for a float32 x: sign(1) exponent(8) fraction(23) to
\* sign(1) exponent(11) fraction(52); zero, normal numbers, Inf and NaN
\* (a subnormal float32 is renormalised, and is not among the values used)
Float32To64(bs) ==
    LET sign == SubSeq(bs, 1, 1)
        e == BitsToNat(SubSeq(bs, 2, 9))
        frac == SubSeq(bs, 10, 32)
        e64 == IF e = 0 THEN 0
               ELSE IF e = 255 THEN 2047
               ELSE e + (1023 - 127)
    IN sign \o NatToBits(e64, 11) \o frac \o Rep(0, 29)

-----------------------------------------------------------------------------
(* go.opentelemetry.io/otel/attribute: a Value is {vtype, numeric, stringly} *)
(* where numeric holds the raw 64 bits of a bool, an int64 or a float64.    *)

\* the numeric field of a value that has no number: zero, written <<>>
NoBits == <<>>

AttrBool(k, b) ==
    [Key |-> k, Value |-> [vtype |-> "BOOL", numeric |-> ZeroExtend(b, 64), stringly |-> <<>>]]

AttrInt64(k, bs) ==
    [Key |-> k, Value |-> [vtype |-> "INT64", numeric |-> bs, stringly |-> <<>>]]

\* attribute.Int(k, v) is Int64(k, int64(v))
AttrInt(k, bs) == AttrInt64(k, ToInt64("int", bs))

AttrFloat64(k, bs) ==
    [Key |-> k, Value |-> [vtype |-> "FLOAT64", numeric |-> bs, stringly |-> <<>>]]

\* stringly is kept as the pieces whose concatenation is the string
AttrString(k, s) ==
    [Key |-> k, Value |-> [vtype |-> "STRING", numeric |-> NoBits, stringly |-> <<s>>]]

AttrText(k, parts) ==
    [Key |-> k, Value |-> [vtype |-> "STRING", numeric |-> NoBits, stringly |-> parts]]

-----------------------------------------------------------------------------
(* CreateSpanAttribute (part_000).  A value v of type interface{} is        *)
(* [type, bits, str]: its dynamic type, the bits of a number or bool, and   *)
(* its text (the string itself, or what %v prints for the other types).    *)

\* fmt's %s verb: a string (or []byte) prints as itself, nil as %!s(<nil>),
\* any other type as %!s(type=value)
FormatS(v) ==
    IF v.type \in {"string", "[]byte"} THEN <<v.str>>
    ELSE IF v.type = "nil" THEN <<"%!s(", v.str, ")">>
    ELSE <<"%!s(", v.type, "=", v.str, ")">>

\* fmt.Sprintf("couldn't convert %s into KeyValue", v)
ConvertErrorMessage(v) == <<"couldn't convert ">> \o FormatS(v) \o <<" into KeyValue">>

ErrorAttribute(v) == AttrText("attribute.error", ConvertErrorMessage(v))

\* the type switch; `case string:` has an empty body and Go does not fall
\* through to the next case, so a string leaves the switch and reaches the
\* final return
CreateSpanAttribute(k, v) ==
    CASE v.type = "string"  -> ErrorAttribute(v)
      [] v.type = "bool"    -> AttrBool(k, v.bits)
      [] v.type = "int64"   -> AttrInt64(k, v.bits)
      [] v.type = "int32"   -> AttrInt(k, ToInt64("int32", v.bits))
      [] v.type = "int"     -> AttrInt(k, v.bits)
      [] v.type = "float64" -> AttrFloat64(k, v.bits)
      [] v.type = "float32" -> AttrFloat64(k, Float32To64(v.bits))
      [] v.type = "uint"    -> AttrInt(k, ToInt64("uint", v.bits))
      [] v.type = "uint64"  -> AttrInt64(k, ToInt64("uint64", v.bits))
      [] v.type = "uint32"  -> AttrInt(k, ToInt64("uint32", v.bits))
      [] OTHER              -> ErrorAttribute(v)

-----------------------------------------------------------------------------
(* The settings and the Options (callbacks.go:21-102).                      *)
(* A slice is its header [ptr, len, cap]; ptr names the array behind it.    *)

Spare == 2          \* spare capacity of the caller's second attribute array

ZeroKV == [Key |-> "", Value |-> [vtype |-> "INVALID", numeric |-> NoBits, stringly |-> <<>>]]

\* arrays of attribute.KeyValue: A0 is the literal of RegisterCallbacks,
\* A1 and A2 belong to the caller, A2 with room behind its one element
ArrayInit(ptr) ==
    CASE ptr = "A1" -> <<AttrString("service", "users-db")>>
      [] ptr = "A2" -> <<AttrString("env", "prod")>> \o Rep(ZeroKV, Spare)
      [] OTHER      -> <<>>

NilSlice == [ptr |-> "nil", len |-> 0, cap |-> 0]
EmptyLiteral == [ptr |-> "A0", len |-> 0, cap |-> 0]
CallerSlices ==
    { NilSlice,
      [ptr |-> "A1", len |-> 1, cap |-> 1],
      [ptr |-> "A2", len |-> 1, cap |-> 1 + Spare] }

Tracers == {"nil", "otel.Tracer(otgorm)", "custom"}
SpanOptionLists == { <<>>, <<"WithSpanKind(Internal)">>, <<"WithSpanKind(Client)">> }

\* an Option: its kind and its argument, one field per argument type
Opt(kind, b, tracer, spanOpts, slice) ==
    [opt |-> kind, b |-> b, tracer |-> tracer, spanOpts |-> spanOpts, slice |-> slice]

WithSpanOptions(opts) == Opt("WithSpanOptions", FALSE, "nil", opts, NilSlice)
WithTracer(tracer) == Opt("WithTracer", FALSE, tracer, <<>>, NilSlice)
AllowRoot(a) == Opt("AllowRoot", a, "nil", <<>>, NilSlice)
Query(q) == Opt("Query", q, "nil", <<>>, NilSlice)
Table(t) == Opt("Table", t, "nil", <<>>, NilSlice)
DefaultAttributes(d) == Opt("DefaultAttributes", FALSE, "nil", <<>>, d)

Options ==
    { WithSpanOptions(o) : o \in SpanOptionLists } \cup
    { WithTracer(t) : t \in Tracers } \cup
    { AllowRoot(b) : b \in BOOLEAN } \cup
    { Query(b) : b \in BOOLEAN } \cup
    { Table(b) : b \in BOOLEAN } \cup
    { DefaultAttributes(d) : d \in CallerSlices }

\* opt.apply(c)
apply(opt, cb) ==
    CASE opt.opt = "WithSpanOptions"   -> [cb EXCEPT !.spanOptions = opt.spanOpts]
      [] opt.opt = "WithTracer"        -> [cb EXCEPT !.tracer = opt.tracer]
      [] opt.opt = "AllowRoot"         -> [cb EXCEPT !.allowRoot = opt.b]
      [] opt.opt = "Query"             -> [cb EXCEPT !.query = opt.b]
      [] opt.opt = "Table"             -> [cb EXCEPT !.table = opt.b]
      [] opt.opt = "DefaultAttributes" -> [cb EXCEPT !.defaultAttributes = opt.slice]

\* c := &callbacks{defaultAttributes: []attribute.KeyValue{}}
NewCallbacks ==
    [allowRoot |-> FALSE, query |-> FALSE, table |-> FALSE,
     defaultAttributes |-> EmptyLiteral, tracer |-> "nil", spanOptions |-> <<>>]

defaultOpts == << WithTracer("otel.Tracer(otgorm)"),
                  WithSpanOptions(<<"WithSpanKind(Internal)">>) >>

\* the defaults applied behind the caller's options
DefaultsLast(opts) == opts \o defaultOpts

\* the options RegisterCallbacks ranges over: append(defaultOpts, opts...)
AllOpts(opts) == defaultOpts \o opts

\* for _, opt := range ... { opt.apply(c) }
RECURSIVE ApplyAll(_, _)
ApplyAll(opts, cb) ==
    IF opts = <<>> THEN cb
    ELSE ApplyAll(Tail(opts), apply(Head(opts), cb))

Settings(opts) == ApplyAll(AllOpts(opts), NewCallbacks)

-----------------------------------------------------------------------------
(* What the hooks work on: gorm scopes, contexts, spans, errors.            *)

NumScopes == 1      \* operations one goroutine runs, one after the other
NumGoroutines == 2  \* operations that run at the same time, each on its own
MaxEnds == 2        \* End calls made on one span in one run

\* every operation has its own scope (gorm's Statement), and a scope
\* serves one operation
ScopeIds == DOMAIN scopes

TableKey == "gorm.table"
QueryKey == "gorm.query"

\* a trace.Span value; NilSpan is Go's nil, NoSpan stands for "no span
\* here" (a context that carries none, a slot that holds none)
NilSpan == [kind |-> "nil", id |-> 0]
NoSpan == [kind |-> "none", id |-> 0]
NoopSpan == [kind |-> "noop", id |-> 0]
CallerSpan == [kind |-> "caller", id |-> 0]     \* a span the caller started
SdkSpan(i) == [kind |-> "sdk", id |-> i]        \* the i-th span of c.tracer

\* a value kept under a key of the scope (interface{}): its dynamic type and,
\* for a context.Context or a trace.Span, the span it carries or is
Absent == [type |-> "absent", span |-> NoSpan]
NotAContext == [type |-> "string", span |-> NoSpan]
NotASpan == [type |-> "int", span |-> NoSpan]
Context(span) == [type |-> "Context", span |-> span]
SpanValue(span) == [type |-> "Span", span |-> span]

\* context.Background()
Background == Context(NoSpan)

\* errors: the chain an error unwraps to, <<>> for nil
NoError == <<>>
ErrRecordNotFound == "record not found"
Errors ==
    { NoError,
      <<ErrRecordNotFound>>,
      <<"find user", ErrRecordNotFound>>,
      <<"duplicate key">> }

\* the comparison err == target, which misses a wrapped error
ErrorsEqual(err, target) == err # <<>> /\ Head(err) = target

\* errors.Is(err, target): err or anything it wraps is target
RECURSIVE ErrorsIs(_, _)
ErrorsIs(err, target) ==
    IF err = <<>> THEN FALSE
    ELSE IF Head(err) = target THEN TRUE
    ELSE ErrorsIs(Tail(err), target)

\* the statement gorm built for the operation running on scope s
StatementTable(s) == IF s % 2 = 1 THEN "users" ELSE "orders"
StatementSQL(s) ==
    IF s % 2 = 1 THEN "SELECT * FROM users WHERE id = ?"
    ELSE "INSERT INTO orders (id) VALUES (?)"

\* the local variable `attributes` of endTrace: a slice header, and the
\* array append allocated for it once the shared one was full
NoAttributes == [ptr |-> "nil", len |-> 0, cap |-> 0]

NewScope(s) ==
    [ctx |-> Absent, span |-> Absent,
     Error |-> NoError, Table |-> StatementTable(s), SQL |-> "",
     pc |-> "ready", attributes |-> NoAttributes, local |-> <<>>]

\* where the operation of a scope is, pc: outside the hooks, at "ready"
\* (nothing ran), "before:ret", "before:panic", "core:ret" (gorm's own
\* callback ran), "after:ret", "after:noop" (after returned at its lookup);
\* or inside endTrace at "after:query", "after:finish"
Outside == {"ready", "before:ret", "before:panic", "core:ret", "after:ret", "after:noop"}

\* gorm calls after_* behind its own callback
AfterCallable == {"core:ret", "after:ret", "after:noop"}

-----------------------------------------------------------------------------
(* The tracing API the hooks call.                                          *)

\* trace.SpanFromContext(ctx), as the otel package documents it: "returns
\* the current Span from ctx. If no Span is currently set in ctx an
\* implementation of a Span that performs no operations is returned."
\* It never returns nil.
SpanFromContext(ctx) ==
    IF ctx.span = NoSpan THEN NoopSpan ELSE ctx.span

\* c.tracer.Start(ctx, name, c.spanOptions...): the record of the new span
StartedSpan(ctx, name) ==
    [name |-> name, parent |-> ctx.span, tracer |-> c.tracer,
     options |-> c.spanOptions, log |-> <<>>]

\* the calls a span receives, in order
SetAttributesCall(kvs) ==
    [call |-> "SetAttributes", attrs |-> kvs, code |-> "", message |-> ""]
SetStatusCall(code, message) ==
    [call |-> "SetStatus", attrs |-> <<>>, code |-> code, message |-> message]
EndCall ==
    [call |-> "End", attrs |-> <<>>, code |-> "", message |-> ""]

Calls(i, what) == { n \in 1..Len(spans[i].log) : spans[i].log[n].call = what }

-----------------------------------------------------------------------------
(* before / startTrace (callbacks.go:128-166)                               *)

\* rctx, _ := scope.Get(contextScopeKey); ctx, ok := rctx.(context.Context)
\* if !ok || ctx == nil { ctx = context.Background() }
ContextOf(slot) == IF slot.type = "Context" THEN slot ELSE Background

\* the early return of startTrace: parentSpan == nil && !c.allowRoot
ReturnsWithoutSpan(ctx) == SpanFromContext(ctx) = NilSpan /\ ~c.allowRoot

OperationOf(s) ==
    CASE s % 4 = 1 -> "query"
      [] s % 4 = 2 -> "create"
      [] s % 4 = 3 -> "update"
      [] OTHER     -> "delete"

SpanName(operation) == <<"gorm:", operation>>

before(s, operation) ==
    LET scope == scopes[s]
        ctx == ContextOf(scope.ctx)
        id == Len(spans) + 1
    IN  /\ scope.pc = "ready"
        /\ IF ReturnsWithoutSpan(ctx)
           THEN /\ scopes' = [scopes EXCEPT ![s].ctx = ctx, ![s].pc = "before:ret"]
                /\ UNCHANGED spans
           ELSE IF c.tracer = "nil"
           THEN \* a method call on a nil interface value panics
                /\ scopes' = [scopes EXCEPT ![s].pc = "before:panic"]
                /\ UNCHANGED spans
           ELSE /\ spans' = Append(spans, StartedSpan(ctx, SpanName(operation)))
                /\ scopes' = [scopes EXCEPT ![s].span = SpanValue(SdkSpan(id)),
                                            ![s].ctx = Context(SdkSpan(id)),
                                            ![s].pc = "before:ret"]
        /\ UNCHANGED <<c, backing, reg, conv>>

Before(s) == before(s, OperationOf(s))

-----------------------------------------------------------------------------
(* after / endTrace (callbacks.go:140-142, 168-209).  endTrace runs on the  *)
(* goroutine of its operation; the steps below are cut where it touches    *)
(* the array behind c.defaultAttributes, which all goroutines share.  The  *)
(* unsynchronised writes and reads of one cell are a data race; its        *)
(* outcomes are taken to be the interleavings of whole-cell accesses.      *)

\* the elements of a slice: from the goroutine's own array or the shared one
Elements(sl, loc, arr) ==
    IF sl.ptr = "local" THEN SubSeq(loc, 1, sl.len) ELSE SubSeq(arr, 1, sl.len)

\* the capacity append gives a slice it has to move (doubling, small slices)
GrowCap(cap, needed) == IF 2 * cap > needed THEN 2 * cap ELSE needed

\* append(sl, x): in place when there is room behind the slice, else into
\* a new array; gives the new slice, the goroutine's array, the shared array
SliceAppend(sl, loc, arr, x) ==
    IF sl.len < sl.cap
    THEN IF sl.ptr = "local"
         THEN [attributes |-> [sl EXCEPT !.len = sl.len + 1],
               local |-> Append(SubSeq(loc, 1, sl.len), x),
               backing |-> arr]
         ELSE [attributes |-> [sl EXCEPT !.len = sl.len + 1],
               local |-> loc,
               backing |-> [arr EXCEPT ![sl.len + 1] = x]]
    ELSE [attributes |-> [ptr |-> "local", len |-> sl.len + 1,
                          cap |-> GrowCap(sl.cap, sl.len + 1)],
          local |-> Append(Elements(sl, loc, arr), x),
          backing |-> arr]

\* the lookup without the type assertion: any value under the key passes
HoldsAnything(slot) == slot.type # "absent"

\* rspan, ok := scope.Get(spanScopeKey); span, ok := rspan.(trace.Span)
HoldsSpan(slot) == slot.type = "Span"

\* the End calls made so far on the span a slot holds
Ended(slot) ==
    IF slot.span.kind = "sdk" THEN Cardinality(Calls(slot.span.id, "End")) ELSE 0

\* lines 169-184: the lookup, attributes := c.defaultAttributes, and the
\* append of the table attribute
AfterStart(s) ==
    LET scope == scopes[s]
        r == IF c.table
             THEN SliceAppend(c.defaultAttributes, <<>>, backing,
                              AttrString(TableKey, scope.Table))
             ELSE [attributes |-> c.defaultAttributes, local |-> <<>>,
                   backing |-> backing]
    IN  /\ scope.pc \in AfterCallable
        /\ IF ~HoldsSpan(scope.span)
           THEN /\ scopes' = [scopes EXCEPT ![s].pc = "after:noop"]
                /\ UNCHANGED backing
           ELSE /\ Ended(scope.span) < MaxEnds
                /\ scopes' = [scopes EXCEPT ![s].attributes = r.attributes,
                                            ![s].local = r.local,
                                            ![s].pc = "after:query"]
                /\ backing' = r.backing
        /\ UNCHANGED <<c, spans, reg, conv>>

\* lines 186-188: the append of the query attribute
AfterQuery(s) ==
    LET scope == scopes[s]
        r == IF c.query
             THEN SliceAppend(scope.attributes, scope.local, backing,
                              AttrString(QueryKey, scope.SQL))
             ELSE [attributes |-> scope.attributes, local |-> scope.local,
                   backing |-> backing]
    IN  /\ scope.pc = "after:query"
        /\ scopes' = [scopes EXCEPT ![s].attributes = r.attributes,
                                    ![s].local = r.local,
                                    ![s].pc = "after:finish"]
        /\ backing' = r.backing
        /\ UNCHANGED <<c, spans, reg, conv>>

\* lines 193-206: the status of the operation's error, if it has one
StatusCalls(err) ==
    IF err = NoError THEN <<>>
    ELSE IF ErrorsIs(err, ErrRecordNotFound)
    THEN <<SetStatusCall("Error", "not found")>>
    ELSE <<SetStatusCall("Unset", "unknown")>>

\* lines 189-208: SetAttributes(attributes...), SetStatus, End
Finish(s) ==
    LET scope == scopes[s]
    IN  <<SetAttributesCall(Elements(scope.attributes, scope.local, backing))>>
        \o StatusCalls(scope.Error) \o <<EndCall>>

AfterFinish(s) ==
    LET scope == scopes[s]
        i == scope.span.span.id
    IN  /\ scope.pc = "after:finish"
        /\ spans' = [spans EXCEPT ![i].log = @ \o Finish(s)]
        /\ scopes' = [scopes EXCEPT ![s].attributes = NoAttributes,
                                    ![s].local = <<>>,
                                    ![s].pc = "after:ret"]
        /\ UNCHANGED <<c, backing, reg, conv>>

-----------------------------------------------------------------------------
(* What gorm and the caller do to a scope around the hooks.                 *)

\* db.Set("_otContext", v) by the caller: a context with or without a span
\* of the caller, or a value that is no context
CallerContexts == {Background, Context(CallerSpan), NotAContext}

SetContext(s, v) ==
    /\ scopes[s].pc = "ready"
    /\ scopes[s].ctx = Absent
    /\ scopes' = [scopes EXCEPT ![s].ctx = v]
    /\ UNCHANGED <<c, backing, spans, reg, conv>>

\* db.Set("_otSpan", v) with a value that is no span
SetNotASpan(s) ==
    /\ scopes[s].pc = "ready"
    /\ scopes[s].span = Absent
    /\ scopes' = [scopes EXCEPT ![s].span = NotASpan]
    /\ UNCHANGED <<c, backing, spans, reg, conv>>

\* gorm's own callback of the operation (gorm:create, gorm:query, ...):
\* it renders the statement and leaves the operation's error in the scope
Execute(s, err) ==
    /\ scopes[s].pc \in {"ready", "before:ret"}
    /\ scopes' = [scopes EXCEPT ![s].SQL = StatementSQL(s), ![s].Error = err,
                                ![s].pc = "core:ret"]
    /\ UNCHANGED <<c, backing, spans, reg, conv>>

-----------------------------------------------------------------------------
(* RegisterCallbacks (callbacks.go:105-126)                                 *)

\* the eight Register calls, in order: processor, position, name
Hooks ==
    << [processor |-> "Create", position |-> <<"Before", "gorm:create">>, name |-> "before_create"],
       [processor |-> "Create", position |-> <<"After", "gorm:create">>,  name |-> "after_create"],
       [processor |-> "Query",  position |-> <<"Before", "gorm:query">>,  name |-> "before_query"],
       [processor |-> "Query",  position |-> <<"After", "gorm:query">>,   name |-> "after_query"],
       [processor |-> "Update", position |-> <<"Before", "gorm:update">>, name |-> "before_update"],
       [processor |-> "Update", position |-> <<"After", "gorm:update">>,  name |-> "after_update"],
       [processor |-> "Delete", position |-> <<"Before", "gorm:delete">>, name |-> "before_delete"],
       [processor |-> "Delete", position |-> <<"After", "gorm:delete">>,  name |-> "after_delete"] >>

\* the error gorm's Register returns when it cannot place the callback
RegisterError(i) == <<"register", Hooks[i].name>>

\* what the caller of RegisterCallbacks gets back: the function has no
\* results, and the value each Register call returns is dropped
Returned(errs) == <<>>

Unregistered ==
    [pc |-> "init", opts |-> <<>>, errs |-> [i \in 1..Len(Hooks) |-> NoError],
     hooks |-> <<>>, returned |-> <<>>]

\* the state RegisterCallbacks(db, opts...) leaves, `failing` being the
\* Register calls gorm answers with an error
Registered(opts, failing) ==
    LET errs == [i \in 1..Len(Hooks) |-> IF i \in failing THEN RegisterError(i) ELSE NoError]
    IN [pc |-> "done", opts |-> opts, errs |-> errs,
        hooks |-> [i \in 1..Len(Hooks) |-> Hooks[i].name],
        returned |-> Returned(errs)]

MaxOpts == 2        \* options passed to RegisterCallbacks

OptionLists == UNION { [1..n -> Options] : n \in 0..MaxOpts }

RegisterCallbacks(opts, failing) ==
    /\ reg.pc = "init"
    /\ c' = Settings(opts)
    /\ backing' = ArrayInit(Settings(opts).defaultAttributes.ptr)
    /\ reg' = Registered(opts, failing)
    /\ UNCHANGED <<scopes, spans, conv>>

-----------------------------------------------------------------------------
(* The values CreateSpanAttribute is applied to.                            *)

Val(type, bits, str) == [type |-> type, bits |-> bits, str |-> str]

\* zero, one, the largest positive, the sign bit alone, all ones
Patterns(n) ==
    { Rep(0, n), Rep(0, n - 1) \o <<1>>, <<0>> \o Rep(1, n - 1),
      <<1>> \o Rep(0, n - 1), Rep(1, n) }

\* 0, 1.0, 1.5, -2.0, +Inf as sign, exponent, fraction
Floats(ebits, fbits) ==
    { Rep(0, 1 + ebits + fbits),
      <<0, 0>> \o Rep(1, ebits - 1) \o Rep(0, fbits),
      <<0, 0>> \o Rep(1, ebits - 1) \o <<1>> \o Rep(0, fbits - 1),
      <<1, 1>> \o Rep(0, ebits - 1) \o Rep(0, fbits),
      <<0>> \o Rep(1, ebits) \o Rep(0, fbits) }

SupportedValues ==
    { Val("string", <<>>, t) : t \in {"hello", "users-db"} } \cup
    { Val("bool", <<b>>, "") : b \in Bit } \cup
    { Val(t, bs, "") : t \in {"int", "int64", "uint", "uint64"}, bs \in Patterns(64) } \cup
    { Val(t, bs, "") : t \in {"int32", "uint32"}, bs \in Patterns(32) } \cup
    { Val("float64", bs, "") : bs \in Floats(11, 52) } \cup
    { Val("float32", bs, "") : bs \in Floats(8, 23) }

OtherValues ==
    { Val("nil", <<>>, "<nil>"),
      Val("int8", NatToBits(5, 8), "5"),
      Val("int16", NatToBits(7, 16), "7"),
      Val("uint8", NatToBits(5, 8), "5"),
      Val("uint16", NatToBits(7, 16), "7"),
      Val("[]byte", <<>>, "raw"),
      Val("struct", <<>>, "{1 2}") }

Values == SupportedValues \cup OtherValues
Keys == {"db.rows", "db.user"}

ConvIdle == [pc |-> "idle", k |-> "", v |-> Val("nil", <<>>, "<nil>"), kv |-> ZeroKV]

Convert ==
    /\ conv.pc = "call"
    /\ conv' = [conv EXCEPT !.pc = "ret", !.kv = CreateSpanAttribute(conv.k, conv.v)]
    /\ UNCHANGED <<c, backing, scopes, spans, reg>>

-----------------------------------------------------------------------------
(* The specifications.                                                      *)

\* the option lists the hooks run under: every combination of the
\* flags with the attribute slices, and one list that takes the tracer away
HookOptionLists ==
    { <<AllowRoot(a), Query(q), Table(t)>> \o d :
        a \in BOOLEAN, q \in BOOLEAN, t \in BOOLEAN,
        d \in {<<>>} \cup { <<DefaultAttributes(x)>> : x \in CallerSlices \ {NilSlice} } }
    \cup { <<WithTracer("nil")>> }

Init ==
    /\ \E opts \in HookOptionLists :
         /\ c = Settings(opts)
         /\ backing = ArrayInit(Settings(opts).defaultAttributes.ptr)
         /\ reg = Registered(opts, {})
    /\ scopes = [s \in 1..NumScopes |-> NewScope(s)]
    /\ spans = <<>>
    /\ conv = ConvIdle

\* no other scope is inside a hook
Alone(s) == \A t \in ScopeIds \ {s} : scopes[t].pc \in Outside

\* one goroutine: a hook runs to its end before the next call
Next ==
    \/ \E s \in ScopeIds : Alone(s) /\ Before(s)
    \/ \E s \in ScopeIds : Alone(s) /\ AfterStart(s)
    \/ \E s \in ScopeIds : Alone(s) /\ AfterQuery(s)
    \/ \E s \in ScopeIds : Alone(s) /\ AfterFinish(s)
    \/ \E s \in ScopeIds, v \in CallerContexts : Alone(s) /\ SetContext(s, v)
    \/ \E s \in ScopeIds : Alone(s) /\ SetNotASpan(s)
    \/ \E s \in ScopeIds, err \in Errors : Alone(s) /\ Execute(s, err)

Spec == Init /\ [][Next]_vars

InitConc ==
    /\ \E opts \in HookOptionLists :
         /\ c = Settings(opts)
         /\ backing = ArrayInit(Settings(opts).defaultAttributes.ptr)
         /\ reg = Registered(opts, {})
    /\ scopes = [s \in 1..NumGoroutines |-> NewScope(s)]
    /\ spans = <<>>
    /\ conv = ConvIdle

\* one goroutine for each scope: gorm runs operations concurrently
NextConc ==
    \/ \E s \in ScopeIds : Before(s)
    \/ \E s \in ScopeIds : AfterStart(s)
    \/ \E s \in ScopeIds : AfterQuery(s)
    \/ \E s \in ScopeIds : AfterFinish(s)
    \/ \E s \in ScopeIds, v \in CallerContexts : SetContext(s, v)
    \/ \E s \in ScopeIds : SetNotASpan(s)
    \/ \E s \in ScopeIds, err \in Errors : Execute(s, err)

SpecConc == InitConc /\ [][NextConc]_vars

InitReg ==
    /\ c = NewCallbacks
    /\ backing = <<>>
    /\ reg = Unregistered
    /\ scopes = [s \in 1..NumScopes |-> NewScope(s)]
    /\ spans = <<>>
    /\ conv = ConvIdle

NextReg ==
    /\ reg.pc = "init"
    /\ \E opts \in OptionLists, failing \in SUBSET (1..Len(Hooks)) :
         RegisterCallbacks(opts, failing)

SpecReg == InitReg /\ [][NextReg]_vars

InitAttr ==
    /\ c = NewCallbacks
    /\ backing = <<>>
    /\ reg = Unregistered
    /\ scopes = [s \in 1..NumScopes |-> NewScope(s)]
    /\ spans = <<>>
    /\ \E k \in Keys, v \in Values :
         conv = [pc |-> "call", k |-> k, v |-> v, kv |-> ZeroKV]

NextAttr == Convert

SpecAttr == InitAttr /\ [][NextAttr]_vars

-----------------------------------------------------------------------------
(* The claims.                                                              *)

\* the span a scope holds under "_otSpan", once it holds one
SpanOf(s) == spans[scopes[s].span.span.id]

\* the SetAttributes calls a span received
AttributeCalls(i) == { spans[i].log[n] : n \in Calls(i, "SetAttributes") }

\* the SetStatus calls a span received
StatusOf(i) == { <<spans[i].log[n].code, spans[i].log[n].message>> : n \in Calls(i, "SetStatus") }

\* C1: with allowRoot = false, a before hook that reads a context without
\* a parent span starts no span and stores no span handle, so no span
\* without a parent exists, is held by a scope or receives a call.
C1_NoRootSpanWhenDisallowed ==
    ~c.allowRoot =>
        /\ \A i \in DOMAIN spans : spans[i].parent # NoSpan
        /\ \A s \in ScopeIds :
             HoldsSpan(scopes[s].span) => SpanOf(s).parent # NoSpan

\* C2: on a span that after found, the status calls follow the operation's
\* error: none for no error, (Error, "not found") for an error that is or
\* wraps record-not-found, (Unset, "unknown") for any other error.
C2_StatusFollowsError ==
    \A s \in ScopeIds :
        HoldsSpan(scopes[s].span) /\ Ended(scopes[s].span) > 0 =>
            LET err == scopes[s].Error
                notFound == \E n \in DOMAIN err : err[n] = ErrRecordNotFound
                status == StatusOf(scopes[s].span.span.id)
            IN  /\ err = NoError => status = {}
                /\ err # NoError /\ notFound => status = {<<"Error", "not found">>}
                /\ err # NoError /\ ~notFound => status = {<<"Unset", "unknown">>}

\* C2 witness: an operation that failed with a wrapped record-not-found
\* has had its span ended with status Error, "not found".
C2_Witness ==
    \E s \in ScopeIds :
        /\ scopes[s].pc = "after:ret"
        /\ scopes[s].Error = <<"find user", ErrRecordNotFound>>
        /\ StatusOf(scopes[s].span.span.id) = {<<"Error", "not found">>}

\* C3: every span that was started is ended at most once, over any
\* sequence of hook calls, and a span whose after hook returned was ended
\* exactly once.
C3_EndedExactlyOnce ==
    /\ \A i \in DOMAIN spans : Cardinality(Calls(i, "End")) <= 1
    /\ \A s \in ScopeIds :
         scopes[s].pc = "after:ret" => Cardinality(Calls(scopes[s].span.span.id, "End")) = 1

\* the attribute list the claims C4 and C5 give the operation of scope s
ExpectedAttributes(s) ==
    SubSeq(ArrayInit(c.defaultAttributes.ptr), 1, c.defaultAttributes.len)
    \o (IF c.table THEN <<AttrString(TableKey, StatementTable(s))>> ELSE <<>>)
    \o (IF c.query THEN <<AttrString(QueryKey, StatementSQL(s))>> ELSE <<>>)

\* C4: the attributes after attaches are the default attributes, then
\* gorm.table iff table-recording is on, then gorm.query iff
\* query-recording is on, in one SetAttributes call made before End.
C4_AttributeSet ==
    \A s \in ScopeIds :
        HoldsSpan(scopes[s].span) =>
            LET log == SpanOf(s).log
            IN  /\ \A n \in DOMAIN log :
                     log[n].call = "SetAttributes" => log[n].attrs = ExpectedAttributes(s)
                /\ \A n \in DOMAIN log :
                     log[n].call = "End" =>
                        \E m \in 1..(n - 1) : log[m].call = "SetAttributes"
                /\ scopes[s].pc = "after:ret" /\ Ended(scopes[s].span) = 1 =>
                     Cardinality(Calls(scopes[s].span.span.id, "SetAttributes")) = 1

\* C5: no hook changes the settings, and with operations running at the
\* same time no span receives a table or query attribute of another
\* operation.
C5_NoForeignAttribute ==
    /\ c = Settings(reg.opts)
    /\ \A s \in ScopeIds :
         HoldsSpan(scopes[s].span) =>
            \A call \in AttributeCalls(scopes[s].span.span.id) :
                \A n \in DOMAIN call.attrs :
                    /\ call.attrs[n].Key = TableKey =>
                         call.attrs[n] = AttrString(TableKey, StatementTable(s))
                    /\ call.attrs[n].Key = QueryKey =>
                         call.attrs[n] = AttrString(QueryKey, StatementSQL(s))

\* the options of a list that touch one field, and the last of them
Touching(opts, kind) == { n \in DOMAIN opts : opts[n].opt = kind }
Last(S) == CHOOSE n \in S : \A m \in S : m <= n

\* C6: each field of the settings has the value of the last option that
\* touches it, and its built-in default when no option does.
C6_LastOptionWins ==
    reg.pc = "done" =>
        LET o == reg.opts
            tr == Touching(o, "WithTracer")
            so == Touching(o, "WithSpanOptions")
            ar == Touching(o, "AllowRoot")
            qu == Touching(o, "Query")
            ta == Touching(o, "Table")
            da == Touching(o, "DefaultAttributes")
        IN  /\ c.tracer = IF tr = {} THEN "otel.Tracer(otgorm)" ELSE o[Last(tr)].tracer
            /\ c.spanOptions = IF so = {} THEN <<"WithSpanKind(Internal)">>
                               ELSE o[Last(so)].spanOpts
            /\ c.allowRoot = IF ar = {} THEN FALSE ELSE o[Last(ar)].b
            /\ c.query = IF qu = {} THEN FALSE ELSE o[Last(qu)].b
            /\ c.table = IF ta = {} THEN FALSE ELSE o[Last(ta)].b
            /\ IF da = {} THEN c.defaultAttributes.len = 0 /\ backing = <<>>
               ELSE /\ c.defaultAttributes = o[Last(da)].slice
                    /\ backing = ArrayInit(o[Last(da)].slice.ptr)

\* C6 witness: two options on the tracer, the second one taken, and the
\* untouched fields at their defaults.
C6_Witness ==
    /\ reg.pc = "done"
    /\ reg.opts = <<WithTracer("nil"), WithTracer("custom")>>
    /\ c.tracer = "custom"
    /\ c.spanOptions = <<"WithSpanKind(Internal)">>
    /\ ~c.allowRoot /\ ~c.query /\ ~c.table
    /\ c.defaultAttributes.len = 0

\* C7: once after has returned, the scope no longer holds the span handle.
C7_SpanSlotCleared ==
    \A s \in ScopeIds : scopes[s].pc = "after:ret" => ~HoldsSpan(scopes[s].span)

\* the number a bit string stands for, as 65 bits in two's complement
Widened(signed, bs) == IF signed THEN SignExtend(bs, 65) ELSE ZeroExtend(bs, 65)

\* C8: CreateSpanAttribute maps a bool to a boolean attribute, every
\* integer type to an integer attribute of the same numeric value, a float
\* to a 64-bit float attribute and a string to a string attribute, all
\* under key k, and any other type to the "attribute.error" string
\* attribute whose message contains the stringified value.
C8_TypeMapping ==
    conv.pc = "ret" =>
        LET v == conv.v
            kv == conv.kv
        IN  CASE v.type = "bool" ->
                    /\ kv.Key = conv.k /\ kv.Value.vtype = "BOOL"
                    /\ BitsToNat(kv.Value.numeric) = v.bits[1]
              [] v.type \in {"int", "int32", "int64", "uint", "uint32", "uint64"} ->
                    /\ kv.Key = conv.k /\ kv.Value.vtype = "INT64"
                    /\ Widened(TRUE, kv.Value.numeric) = Widened(IsSigned(v.type), v.bits)
              [] v.type \in {"float32", "float64"} ->
                    kv.Key = conv.k /\ kv.Value.vtype = "FLOAT64"
              [] v.type = "string" ->
                    /\ kv.Key = conv.k /\ kv.Value.vtype = "STRING"
                    /\ kv.Value.stringly = <<v.str>>
              [] OTHER ->
                    /\ kv.Key = "attribute.error" /\ kv.Value.vtype = "STRING"
                    /\ \E n \in DOMAIN kv.Value.stringly : kv.Value.stringly[n] = v.str

\* C9: an after hook that finds no span handle under the span key returns
\* at once: it makes no call on any span and leaves the scope's slots,
\* error and statement, the settings and the attribute array as they were.
C9_NoSpanNoEffect ==
    [][ \A s \in ScopeIds :
          ( /\ scopes[s].pc \in AfterCallable
            /\ scopes[s].span.type # "Span"
            /\ scopes'[s] # scopes[s] )
          => /\ scopes'[s] = [scopes[s] EXCEPT !.pc = "after:noop"]
             /\ spans' = spans
             /\ backing' = backing
             /\ c' = c ]_vars

\* C9 witness: after has returned at its lookup on a scope whose span key
\* holds a value that is no span.
C9_Witness ==
    \E s \in ScopeIds :
        /\ scopes[s].pc = "after:noop"
        /\ scopes[s].span = NotASpan
        /\ scopes[s].SQL # ""

\* C10: an error one of the eight Register calls returns reaches the
\* caller of RegisterCallbacks.
C10_RegisterErrorPropagates ==
    reg.pc = "done" =>
        \A i \in DOMAIN reg.errs :
            reg.errs[i] # NoError =>
                \E n \in DOMAIN reg.returned : reg.returned[n] = reg.errs[i]

=============================================================================
